---- MODULE Spec2Model ----
(***************************************************************************)
(* Orchestrator of the voice assistant (src/core/app.py, AssistantApp),    *)
(* together with the parts of StreamingRecorder, AudioPlayer and the       *)
(* WebRTC gateway that it shares state with.                               *)
(*                                                                         *)
(* Threads of the program and how they appear here:                        *)
(*   - the tick thread (AssistantApp.run): tpc, tloc                       *)
(*   - the background tasks started by the per-state handlers              *)
(*     (_waiting_task, _thinking_task, _playing_task, _news_tts_task,      *)
(*     _news_playing_task): the pool thr, one record per thread            *)
(*   - the recognition threads started by record_and_transcribe            *)
(*     (_process_google_responses): the pool rec                           *)
(*   - the signaling thread that runs _on_call_start/_on_call_end: rpc     *)
(* A step of a thread is a stretch of its code between two points where    *)
(* another thread can observe or change what it uses; `with _task_lock`    *)
(* blocks that cannot block inside are one step guarded by lock = "free".  *)
(* Time is abstract: every timeout or sleep may elapse at any step.        *)
(* Not modelled: logging and the UI surface (ui_manager), which do not     *)
(* feed back into the state machine; _wake_word_detection_active, which    *)
(* is only ever written.                                                   *)
(***************************************************************************)
EXTENDS Integers, Sequences, FiniteSets, TLC

(* ---- bounds of the model ---- *)
MaxThreads == 3      \* background-task threads that can be alive at once
MaxRec == 2          \* recognition threads that can be alive at once
MaxWakes == 2        \* wake words the user speaks (Spec)
MaxEnters == 1       \* Enter key presses (Spec)
MaxCallWakes == 1    \* wake words the user speaks (SpecCall)
MaxCalls == 1        \* incoming offers (SpecCall)
MaxCallEnters == 1   \* Enter key presses (SpecCall)
MaxTitles == 2       \* headlines the news action can return
MaxFrameWakes == 1   \* wake words the user speaks (SpecFrames)
MaxFrames == 2       \* frames the capture stream delivers (SpecFrames)
MaxListenWakes == 2  \* wake words the user speaks (SpecListen)
MaxMoreFinals == 1   \* final transcripts that follow a stream's first one (SpecListen)
MaxMusicThreads == 2 \* music playback threads alive at once (SpecMusic)
MaxMusicCalls == 3   \* calls of MusicAction.execute / stop (SpecMusic)
MaxPolls == 1        \* length of a track in polls of the playback loop (SpecMusic)

Threads == 1..MaxThreads
Recs == 1..MaxRec

(* AppState, src/core/state.py *)
AppState == {"IDLE", "CALLING", "LISTENING", "TRANSCRIBING", "THINKING",
             "ACTING", "CHATTING", "SPEAKING", "NEWS", "MUSIC"}

(* Final transcripts, by what PatternNLU.recognize makes of them: a text   *)
(* that matches a news pattern, a text that matches none, and a request    *)
(* for music ("play happy music"), for which no pattern exists.            *)
Transcripts == {"news", "chat", "music"}

(* ActionRegistry._register_default_actions: the names get_action resolves *)
Registry == {"weather", "news"}

VARIABLES
  state,              \* self.state
  slot,               \* self._background_task: 0 (None) or a thread of thr
  lock,               \* self._task_lock: "free", or the thread that sits in
                      \* a blocking section with it: "tick", "rtc"
  wakeFlag,           \* self._wake_word_detected (threading.Event)
  listenStart,        \* self._listening_start_time is not None
  speakingHandled,    \* self._speaking_handled
  asrResult,          \* self.current_asr_result ("none" or its text class)
  intent,             \* self.current_intent: an action's name, a chat reply, or "none"
  ttsResult,          \* self.current_tts_result ("none", "preset", "tts")
  isNewsAction,       \* self._is_news_action
  newsData,           \* self._news_data: -1 (None) or len(titles)
  newsIndex,          \* self._news_index
  newsTtsGenerating,  \* self._news_tts_generating
  newsTtsResult,      \* self._current_news_tts_result
  newsFileIndex,      \* self._news_tts_file_index
  newsSession,        \* history: news sessions begun so far (the n-th call of
                      \* NewsAction.execute returns the headlines of session n)
  playerIsPlaying,    \* AudioPlayer.is_playing
  speaker,            \* the output device: 0 (silent) or the thread whose
                      \* sd.play is being output
  isRecording,        \* StreamingRecorder.is_recording
  streamingActive,    \* StreamingRecorder._streaming_active
  finalResult,        \* StreamingRecorder._final_result
  recogStarted,       \* StreamingRecorder._recognition_started
  streamActive,       \* StreamingRecorder._audio_stream.active
  thr,                \* background-task threads
  rec,                \* recognition threads: TRUE while alive
  tpc,                \* where the tick thread is
  tloc,               \* the tick thread's local (title index for a spawn)
  rpc,                \* where the signaling thread is
  wakesLeft, callsLeft, entersLeft,  \* what the environment may still do
  finalsLeft,                        \* further final transcripts the service may send
  audioQueue,         \* StreamingRecorder.audio_queue: per frame, was it captured in a busy state
  framesLeft,         \* frames the capture stream may still deliver
  llm,                \* how the chat service answers requests.post in this run
  nluText,            \* PatternNLU.recognize: its argument, as the sequence of its words
  nluPat,             \* PatternNLU.recognize: the pattern the loop is at
  nluResult,          \* PatternNLU.recognize: "pending", then the action name or "none"
  trackOn,            \* an AudioInputTrack is running on the peer connection
  pcOpen              \* the RTCPeerConnection of the call exists and is not closed

coreVars == <<state, slot, lock>>
cycleVars == <<wakeFlag, listenStart, speakingHandled, asrResult, intent, ttsResult>>
newsVars == <<isNewsAction, newsData, newsIndex, newsTtsGenerating,
              newsTtsResult, newsFileIndex, newsSession>>
sinkVars == <<playerIsPlaying, speaker>>
recVars == <<isRecording, streamingActive, finalResult, recogStarted, streamActive>>
thrVars == <<thr, rec>>
ctlVars == <<tpc, tloc, rpc>>
envVars == <<wakesLeft, callsLeft, entersLeft, finalsLeft>>
frameVars == <<audioQueue, framesLeft>>
chatVars == <<llm>>
nluVars == <<nluText, nluPat, nluResult>>
rtcVars == <<trackOn, pcOpen>>
appVars == <<coreVars, cycleVars, newsVars, sinkVars, recVars, thrVars, ctlVars, envVars,
             frameVars, chatVars, nluVars, rtcVars>>

(* MusicAction (actions/music.py) and the thread that calls it *)
VARIABLES
  musicIsPlaying,     \* self._is_playing
  playbackThread,     \* self._playback_thread: a music thread's id, 0 for None
  mthr,               \* the playback threads: where each is, its target, its `elapsed`,
                      \* and its temporary file: "none", "named" (it exists and
                      \* tmp_path names it) or "anon" (it exists, tmp_path is None)
  sdOut,              \* the music thread whose audio sounddevice is playing, 0: none
  cpc,                \* where the caller of execute / stop is
  cOp,                \* the caller's last call: a query class, or "stop"
  cJoin,              \* the local `thread` of _prepare_new_playback and of stop
  ret,                \* how the last call returned
  musicCallsLeft      \* calls of execute / stop still to come

musicVars == <<musicIsPlaying, playbackThread, mthr, sdOut, cpc, cOp, cJoin, ret,
               musicCallsLeft>>
vars == <<appVars, musicVars>>

(* ---- threads ---- *)
MusicThreads == 1..MaxMusicThreads
MusicDead == [pc |-> "dead", target |-> "none", elapsed |-> 0, tmp |-> "none"]
Queries == {"empty", "preset", "search"}

Dead == [kind |-> "none", pc |-> "dead", res |-> "none", n |-> 0, m |-> 0, s |-> 0]
NewThread(k, p, a) ==
  [kind |-> k, pc |-> p, res |-> "none", n |-> a, m |-> 0,
   s |-> IF k = "ntts" THEN newsSession ELSE 0]

(* threading.Thread.is_alive *)
Alive(i) == thr[i].pc # "dead"

(* `self._background_task and self._background_task.is_alive()` *)
SlotAlive == slot # 0 /\ Alive(slot)

FreeIds == {i \in Threads : ~Alive(i)}
NewId == CHOOSE i \in FreeIds : \A j \in FreeIds : i <= j
RecAlive(r) == rec[r]
FreeRecs == {r \in Recs : ~rec[r]}
NewRec == CHOOSE r \in FreeRecs : \A q \in FreeRecs : r <= q

To(i, p) == [thr EXCEPT ![i].pc = p]
At(i, k, p) == thr[i].kind = k /\ thr[i].pc = p

NoTts == [slot |-> -1, title |-> -1, s |-> -1]

(* What requests.post and response.json() can give LLMClient.ask: a reply, *)
(* a status other than 200, a JSON body without choices[0].message.content,*)
(* a body that is not JSON, or no connection                               *)
LlmOutcomes == {"ok", "http_error", "no_choices", "bad_json", "no_connection"}


(* ---- PatternNLU ---- *)

(* The texts of test_pattern_nlu.py, each as the sequence of its words:    *)
(* those that must be recognized as news, those that must not, and two     *)
(* chat texts                                                              *)
PositiveTexts ==
  {<<"news">>,
   <<"show", "me", "news">>,
   <<"what's", "the", "news">>,
   <<"tell", "me", "the", "news">>,
   <<"get", "me", "news">>,
   <<"fetch", "the", "news">>,
   <<"read", "me", "news">>,
   <<"latest", "news">>,
   <<"current", "news">>,
   <<"today's", "news">>,
   <<"news", "of", "the", "day">>,
   <<"what's", "happening">>,
   <<"what's", "going", "on">>,
   <<"show", "me", "the", "latest", "news">>,
   <<"I", "want", "to", "see", "the", "news">>,
   <<"can", "you", "get", "me", "some", "news">>,
   <<"newspaper">>,
   <<"headlines">>,
   <<"headline">>}

NegativeTexts ==
  {<<"hello">>,
   <<"how", "are", "you">>,
   <<"what", "time", "is", "it">>,
   <<"weather">>,
   <<"play", "music">>,
   <<"set", "timer">>,
   <<"nothing", "related", "to", "news">>,
   <<"I", "don't", "want", "news">>}

ChatTexts ==
  {<<"what", "is", "AI">>,
   <<"hello", "there">>}

TestTexts == PositiveTexts \cup NegativeTexts \cup ChatTexts

(* str.lower on a word *)
Lower(w) == CASE w = "I" -> "i" [] w = "AI" -> "ai" [] OTHER -> w

(* text.lower().strip() *)
LowerText(ws) == [k \in 1..Len(ws) |-> Lower(ws[k])]

(* PatternNLU._init_patterns: the regular expressions of "news" in their   *)
(* order. b: the expression is one word between two \b. e: its elements,   *)
(* which \s+ separates; o: the element is optional, `(the\s+)?`; w: the    *)
(* words the element matches (`what'?s?` matches what, what', whats and    *)
(* what's)                                                                 *)
NewsPatterns ==
  <<[b |-> TRUE, e |-> <<[o |-> FALSE, w |-> {"news"}]>>],
    [b |-> TRUE, e |-> <<[o |-> FALSE, w |-> {"newspaper"}]>>],
    [b |-> TRUE, e |-> <<[o |-> FALSE, w |-> {"headlines"}]>>],
    [b |-> TRUE, e |-> <<[o |-> FALSE, w |-> {"headline"}]>>],
    [b |-> FALSE, e |-> <<[o |-> FALSE, w |-> {"show"}], [o |-> FALSE, w |-> {"me"}], [o |-> TRUE, w |-> {"the"}], [o |-> FALSE, w |-> {"news"}]>>],
    [b |-> FALSE, e |-> <<[o |-> FALSE, w |-> {"what", "whats", "what's", "what'"}], [o |-> TRUE, w |-> {"the"}], [o |-> FALSE, w |-> {"news"}]>>],
    [b |-> FALSE, e |-> <<[o |-> FALSE, w |-> {"tell"}], [o |-> FALSE, w |-> {"me"}], [o |-> TRUE, w |-> {"the"}], [o |-> FALSE, w |-> {"news"}]>>],
    [b |-> FALSE, e |-> <<[o |-> FALSE, w |-> {"get"}], [o |-> TRUE, w |-> {"me"}], [o |-> TRUE, w |-> {"the"}], [o |-> FALSE, w |-> {"news"}]>>],
    [b |-> FALSE, e |-> <<[o |-> FALSE, w |-> {"fetch"}], [o |-> TRUE, w |-> {"me"}], [o |-> TRUE, w |-> {"the"}], [o |-> FALSE, w |-> {"news"}]>>],
    [b |-> FALSE, e |-> <<[o |-> FALSE, w |-> {"read"}], [o |-> TRUE, w |-> {"me"}], [o |-> TRUE, w |-> {"the"}], [o |-> FALSE, w |-> {"news"}]>>],
    [b |-> FALSE, e |-> <<[o |-> FALSE, w |-> {"latest"}], [o |-> FALSE, w |-> {"news"}]>>],
    [b |-> FALSE, e |-> <<[o |-> FALSE, w |-> {"current"}], [o |-> FALSE, w |-> {"news"}]>>],
    [b |-> FALSE, e |-> <<[o |-> FALSE, w |-> {"today", "todays", "today's", "today'"}], [o |-> FALSE, w |-> {"news"}]>>],
    [b |-> FALSE, e |-> <<[o |-> FALSE, w |-> {"news"}], [o |-> FALSE, w |-> {"of"}], [o |-> FALSE, w |-> {"the"}], [o |-> FALSE, w |-> {"day"}]>>],
    [b |-> FALSE, e |-> <<[o |-> FALSE, w |-> {"what", "whats", "what's", "what'"}], [o |-> FALSE, w |-> {"happening"}]>>],
    [b |-> FALSE, e |-> <<[o |-> FALSE, w |-> {"what", "whats", "what's", "what'"}], [o |-> FALSE, w |-> {"going"}], [o |-> FALSE, w |-> {"on"}]>>]>>

(* The pattern words a word of the texts begins with: an expression that   *)
(* does not end in \b matches the beginning of a longer word              *)
Prefixes(word) ==
  CASE word = "newspaper" -> {"news", "newspaper"}
    [] word = "headlines" -> {"headline", "headlines"}
    [] OTHER -> {word}

(* Element k of the pattern matches the word. No word of the texts ends in *)
(* a longer pattern word, so a first element matches whole words only      *)
Fits(pat, k, word) ==
  IF ~pat.b /\ k = Len(pat.e) THEN Prefixes(word) \cap pat.e[k].w # {}
                               ELSE word \in pat.e[k].w

(* The elements from k on match the words from i on *)
RECURSIVE MatchFrom(_, _, _, _)
MatchFrom(pat, k, ws, i) ==
  IF k > Len(pat.e) THEN TRUE
  ELSE \/ pat.e[k].o /\ MatchFrom(pat, k + 1, ws, i)
       \/ i <= Len(ws) /\ Fits(pat, k, ws[i]) /\ MatchFrom(pat, k + 1, ws, i + 1)

(* re.search(pattern, text_lower, re.IGNORECASE) *)
Search(pat, ws) == \E i \in 1..Len(ws) : MatchFrom(pat, 1, ws, i)

(* AssistantApp.__init__, StreamingRecorder.__init__ and                   *)
(* AudioPlayer.__init__; w, c, e, mc, f, fr, o: what the environment will  *)
(* do; t: the text PatternNLU.recognize is called with (`if not text:     *)
(* return None` for the empty one)                                         *)
InitWith(w, c, e, mc, f, fr, o, t) ==
  /\ state = "IDLE"
  /\ slot = 0
  /\ lock = "free"
  /\ wakeFlag = FALSE
  /\ listenStart = FALSE
  /\ speakingHandled = FALSE
  /\ asrResult = "none"
  /\ intent = "none"
  /\ ttsResult = "none"
  /\ isNewsAction = FALSE
  /\ newsData = -1
  /\ newsIndex = 0
  /\ newsTtsGenerating = FALSE
  /\ newsTtsResult = NoTts
  /\ newsFileIndex = 0
  /\ newsSession = 0
  /\ playerIsPlaying = FALSE
  /\ speaker = 0
  /\ isRecording = FALSE
  /\ streamingActive = FALSE
  /\ finalResult = "none"
  /\ recogStarted = FALSE
  /\ streamActive = TRUE
  /\ thr = [i \in Threads |-> Dead]
  /\ rec = [r \in Recs |-> FALSE]
  /\ tpc = "loop"
  /\ tloc = 0
  /\ rpc = "r_idle"
  /\ wakesLeft = w
  /\ callsLeft = c
  /\ entersLeft = e
  /\ finalsLeft = f
  /\ audioQueue = <<>>
  /\ framesLeft = fr
  /\ llm = o
  /\ nluText = t
  /\ nluPat = 1
  /\ trackOn = FALSE
  /\ pcOpen = FALSE
  /\ nluResult = IF t = <<>> THEN "none" ELSE "pending"
  /\ musicIsPlaying = FALSE
  /\ playbackThread = 0
  /\ mthr = [i \in MusicThreads |-> MusicDead]
  /\ sdOut = 0
  /\ cpc = "idle"
  /\ cOp = "none"
  /\ cJoin = 0
  /\ ret = "none"
  /\ musicCallsLeft = mc

(* No call arrives *)
Init == InitWith(MaxWakes, 0, MaxEnters, 0, 0, 0, "ok", <<>>)

(* Calls arrive *)
InitCall == InitWith(MaxCallWakes, MaxCalls, MaxCallEnters, 0, 0, 0, "ok", <<>>)

(* A MusicAction driven through execute / stop, as test_music_action.py     *)
(* does; the assistant stays idle                                          *)
InitMusic == InitWith(0, 0, 0, MaxMusicCalls, 0, 0, "ok", <<>>)

(* The recognizer's cycles alone: the service may send a further final     *)
(* transcript after a stream's first one                                   *)
InitListen == InitWith(MaxListenWakes, 0, 0, 0, MaxMoreFinals, 0, "ok", <<>>)

(* PatternNLU.recognize called with a text of its test                     *)
InitNlu == \E t \in TestTexts : InitWith(0, 0, 0, 0, 0, 0, "ok", t)

(* The capture stream delivers frames and the chat service answers in one  *)
(* of the ways LLMClient.ask distinguishes; no key is pressed              *)
InitFrames == \E o \in LlmOutcomes : InitWith(MaxFrameWakes, 0, 0, 0, 0, MaxFrames, o, <<>>)

(* ---- helpers shared by the handlers ---- *)

(* AssistantApp._clear_state_data *)
ClearStateData ==
  /\ asrResult' = "none"
  /\ intent' = "none"
  /\ ttsResult' = "none"

(* AssistantApp._reset_streaming_recorder: the flags are cleared and the   *)
(* capture stream is re-initialized when it is not active.                 *)
ResetStreamingRecorder ==
  /\ isRecording' = FALSE
  /\ streamingActive' = FALSE
  /\ streamActive' = TRUE

(* The flag part of AssistantApp._stop_background_tasks *)
StopNothing ==
  /\ UNCHANGED <<isRecording, streamingActive>>

StopFlags ==
  /\ isRecording' = FALSE
  /\ streamingActive' = FALSE

(* threading.Thread(target=...).start() with the slot assigned to it *)
Spawn(k, p, a) ==
  /\ FreeIds # {}
  /\ thr' = [thr EXCEPT ![NewId] = NewThread(k, p, a)]
  /\ slot' = NewId

(* ---- the tick thread: AssistantApp.run and the per-state handlers ---- *)

(* run: K_RETURN in state NEWS, up to _stop_background_tasks' lock *)
TickEnterNews ==
  /\ tpc = "loop" /\ state = "NEWS" /\ entersLeft > 0
  /\ entersLeft' = entersLeft - 1
  /\ speaker' = 0 /\ playerIsPlaying' = FALSE
  /\ StopFlags
  /\ tpc' = "enter2"
  /\ UNCHANGED <<coreVars, cycleVars, newsVars, finalResult, recogStarted,
                 streamActive, thrVars, tloc, rpc, wakesLeft, callsLeft, finalsLeft>>
  /\ UNCHANGED <<musicVars, frameVars, chatVars, nluVars, rtcVars>>

(* run: K_RETURN in state NEWS, from the slot reset to the end *)
TickEnterNews2 ==
  /\ tpc = "enter2" /\ lock = "free"
  /\ slot' = 0
  /\ ResetStreamingRecorder
  /\ state' = "IDLE"
  /\ speakingHandled' = FALSE
  /\ isNewsAction' = FALSE
  /\ newsData' = -1
  /\ newsIndex' = 0
  /\ newsTtsGenerating' = FALSE
  /\ newsTtsResult' = NoTts
  /\ ClearStateData
  /\ tpc' = "loop"
  /\ UNCHANGED <<lock, wakeFlag, listenStart, newsFileIndex, newsSession,
                 sinkVars, finalResult, recogStarted, thrVars, tloc, rpc, envVars>>
  /\ UNCHANGED <<musicVars, frameVars, chatVars, nluVars, rtcVars>>

(* _handle_idle, first `with self._task_lock` *)
TickIdle ==
  /\ tpc = "loop" /\ state = "IDLE" /\ lock = "free"
  /\ IF SlotAlive
       THEN /\ IF wakeFlag
                 THEN state' = "LISTENING" /\ listenStart' = TRUE /\ wakeFlag' = FALSE
                 ELSE UNCHANGED <<state, listenStart, wakeFlag>>
            /\ tpc' = "loop"
       ELSE /\ tpc' = "idle2"
            /\ UNCHANGED <<state, listenStart, wakeFlag>>
  /\ UNCHANGED <<slot, lock, speakingHandled, asrResult, intent, ttsResult,
                 newsVars, sinkVars, recVars, thrVars, tloc, rpc, envVars>>
  /\ UNCHANGED <<musicVars, frameVars, chatVars, nluVars, rtcVars>>

(* _handle_idle, second `with self._task_lock`: the wake task is started *)
TickIdleSpawn ==
  /\ tpc = "idle2" /\ lock = "free"
  /\ Spawn("wake", "w_loop", 0)
  /\ tpc' = "loop"
  /\ UNCHANGED <<state, lock, cycleVars, newsVars, sinkVars, recVars, rec,
                 tloc, rpc, envVars>>
  /\ UNCHANGED <<musicVars, frameVars, chatVars, nluVars, rtcVars>>

(* _handle_listening: the result check and the timeout test *)
TickListening ==
  /\ tpc = "loop" /\ state = "LISTENING"
  /\ \E expired \in BOOLEAN :
       tpc' = IF finalResult = "none" /\ listenStart /\ expired
                THEN "listen2" ELSE "loop"
  /\ UNCHANGED <<coreVars, cycleVars, newsVars, sinkVars, recVars, thrVars,
                 tloc, rpc, envVars>>
  /\ UNCHANGED <<musicVars, frameVars, chatVars, nluVars, rtcVars>>

(* _handle_listening: the timeout branch *)
TickListenTimeout ==
  /\ tpc = "listen2"
  /\ StopFlags
  /\ state' = "IDLE"
  /\ listenStart' = FALSE
  /\ tpc' = "loop"
  /\ UNCHANGED <<slot, lock, wakeFlag, speakingHandled, asrResult, intent,
                 ttsResult, newsVars, sinkVars, finalResult, recogStarted,
                 streamActive, thrVars, tloc, rpc, envVars>>
  /\ UNCHANGED <<musicVars, frameVars, chatVars, nluVars, rtcVars>>

(* _handle_thinking, first `with self._task_lock` *)
TickThinking ==
  /\ tpc = "loop" /\ state = "THINKING" /\ lock = "free"
  /\ tpc' = IF SlotAlive THEN "loop" ELSE "think2"
  /\ UNCHANGED <<coreVars, cycleVars, newsVars, sinkVars, recVars, thrVars,
                 tloc, rpc, envVars>>
  /\ UNCHANGED <<musicVars, frameVars, chatVars, nluVars, rtcVars>>

(* _handle_thinking, second `with self._task_lock` *)
TickThinkSpawn ==
  /\ tpc = "think2" /\ lock = "free"
  /\ Spawn("think", "t_start", 0)
  /\ tpc' = "loop"
  /\ UNCHANGED <<state, lock, cycleVars, newsVars, sinkVars, recVars, rec,
                 tloc, rpc, envVars>>
  /\ UNCHANGED <<musicVars, frameVars, chatVars, nluVars, rtcVars>>

(* _handle_acting up to action.execute: tloc = 1 when the registry holds   *)
(* the intent's action (only "news" names one), 0 when get_action is None. *)
TickActing ==
  /\ tpc = "loop" /\ state = "ACTING"
  /\ IF intent = "none"
       THEN state' = "IDLE" /\ tpc' = "loop" /\ tloc' = 0
       ELSE state' = state /\ tpc' = "act2"
            /\ tloc' = IF intent \in Registry THEN 1 ELSE 0
  /\ UNCHANGED <<slot, lock, cycleVars, newsVars, sinkVars, recVars, thrVars,
                 rpc, envVars>>
  /\ UNCHANGED <<musicVars, frameVars, chatVars, nluVars, rtcVars>>

(* _handle_acting after action.execute returned (or after synthesize for   *)
(* an unknown action). An AttributeError on a cleared current_intent, or a *)
(* failing synthesize, is caught by run and leaves the state as it is.     *)
TickActingDone ==
  /\ tpc = "act2"
  /\ tpc' = "loop" /\ tloc' = 0
  /\ \E n \in 0..MaxTitles, ok \in BOOLEAN :
       IF tloc = 1
         THEN IF intent = "none"
                THEN UNCHANGED <<state, ttsResult, isNewsAction, newsData, newsSession>>
                ELSE IF intent = "news"
                  THEN /\ newsData' = n
                       /\ newsSession' = newsSession + 1
                       /\ isNewsAction' = TRUE
                       /\ ttsResult' = "preset"
                       /\ state' = "SPEAKING"
                  ELSE /\ isNewsAction' = FALSE
                       /\ ttsResult' = "preset"
                       /\ state' = "SPEAKING"
                       /\ UNCHANGED <<newsData, newsSession>>
         ELSE IF ok
                THEN /\ ttsResult' = "tts"
                     /\ state' = "SPEAKING"
                     /\ UNCHANGED <<isNewsAction, newsData, newsSession>>
                ELSE UNCHANGED <<state, ttsResult, isNewsAction, newsData, newsSession>>
  /\ UNCHANGED <<slot, lock, wakeFlag, listenStart, speakingHandled, asrResult,
                 intent, newsIndex, newsTtsGenerating, newsTtsResult,
                 newsFileIndex, sinkVars, recVars, thrVars, rpc, envVars>>
  /\ UNCHANGED <<musicVars, frameVars, chatVars, nluVars, rtcVars>>

(* _handle_chatting up to tts_client.synthesize; with current_intent None  *)
(* the handler raises and run catches it.                                  *)
TickChatting ==
  /\ tpc = "loop" /\ state = "CHATTING"
  /\ tpc' = IF intent = "none" THEN "loop" ELSE "chat2"
  /\ UNCHANGED <<coreVars, cycleVars, newsVars, sinkVars, recVars, thrVars,
                 tloc, rpc, envVars>>
  /\ UNCHANGED <<musicVars, frameVars, chatVars, nluVars, rtcVars>>

(* _handle_chatting after synthesize returned or raised *)
TickChattingDone ==
  /\ tpc = "chat2"
  /\ tpc' = "loop"
  /\ \E ok \in BOOLEAN :
       IF ok THEN ttsResult' = "tts" /\ state' = "SPEAKING"
             ELSE UNCHANGED <<ttsResult, state>>
  /\ UNCHANGED <<slot, lock, wakeFlag, listenStart, speakingHandled, asrResult,
                 intent, newsVars, sinkVars, recVars, thrVars, tloc, rpc, envVars>>
  /\ UNCHANGED <<musicVars, frameVars, chatVars, nluVars, rtcVars>>

(* What _handle_speaking does when it finds the playback over *)
SpeakingOver ==
  /\ speakingHandled' = FALSE
  /\ IF isNewsAction
       THEN /\ state' = "NEWS"
            /\ UNCHANGED <<asrResult, intent, ttsResult, isRecording,
                           streamingActive, streamActive>>
       ELSE /\ state' = "IDLE"
            /\ ResetStreamingRecorder
            /\ ClearStateData
(* _handle_speaking. With _speaking_handled set it looks at the slot and   *)
(* the sink under the lock; when the slot's task is alive and the sink is  *)
(* not playing it ends SPEAKING and then enters `with self._task_lock`     *)
(* again while still inside the outer one (tpc = "spk_relock").  Otherwise *)
(* (first pass) it checks the audio file, which is taken to exist, and the *)
(* slot; with current_tts_result None the handler raises and run catches.  *)
TickSpeaking ==
  /\ tpc = "loop" /\ state = "SPEAKING"
  /\ IF speakingHandled
       THEN /\ lock = "free"
            /\ IF ~playerIsPlaying
                 THEN /\ SpeakingOver
                      /\ IF SlotAlive
                           THEN lock' = "tick" /\ tpc' = "spk_relock"
                           ELSE lock' = lock /\ tpc' = "loop"
                 ELSE UNCHANGED <<state, lock, speakingHandled, asrResult, intent,
                                  ttsResult, isRecording, streamingActive,
                                  streamActive, tpc>>
       ELSE IF ttsResult = "none"
              THEN UNCHANGED <<state, lock, speakingHandled, asrResult, intent,
                               ttsResult, isRecording, streamingActive,
                               streamActive, tpc>>
              ELSE /\ lock = "free"
                   /\ IF SlotAlive
                        THEN speakingHandled' = TRUE /\ tpc' = "loop"
                        ELSE speakingHandled' = speakingHandled /\ tpc' = "speak3"
                   /\ UNCHANGED <<state, lock, asrResult, intent, ttsResult,
                                  isRecording, streamingActive, streamActive>>
  /\ UNCHANGED <<slot, wakeFlag, listenStart, newsVars, sinkVars, finalResult,
                 recogStarted, thrVars, tloc, rpc, envVars>>
  /\ UNCHANGED <<musicVars, frameVars, chatVars, nluVars, rtcVars>>

(* _handle_speaking: the playback task is started *)
TickSpeakSpawn ==
  /\ tpc = "speak3" /\ lock = "free"
  /\ speakingHandled' = TRUE
  /\ Spawn("play", "p_start", 0)
  /\ tpc' = "loop"
  /\ UNCHANGED <<state, lock, wakeFlag, listenStart, asrResult, intent, ttsResult,
                 newsVars, sinkVars, recVars, rec, tloc, rpc, envVars>>
  /\ UNCHANGED <<musicVars, frameVars, chatVars, nluVars, rtcVars>>

(* _handle_news with an empty title list: `self.state = AppState.IDLE`.   *)
(* NewsEmptyStay is the branch without that write.                         *)
NewsEmptyStay ==
  state' = state /\ tpc' = "news_empty"
NewsEmptyExit ==
  state' = "IDLE" /\ tpc' = "news_empty"

(* _handle_news up to the `with self._task_lock` of the branch it takes,   *)
(* or up to the state write of the empty-list branch. newsData = -1 with   *)
(* _speaking_handled set makes `.get` raise (caught by run).               *)
TickNews ==
  /\ tpc = "loop" /\ state = "NEWS"
  /\ LET first == ~speakingHandled
         idx == IF first THEN 0 ELSE newsIndex
     IN IF first /\ newsData = -1
          THEN /\ state' = "IDLE" /\ isNewsAction' = FALSE
               /\ ResetStreamingRecorder /\ ClearStateData
               /\ tpc' = "loop"
               /\ UNCHANGED <<speakingHandled, newsData, newsIndex,
                              newsTtsGenerating, newsTtsResult, tloc>>
        ELSE IF newsData = -1
          THEN UNCHANGED <<state, isNewsAction, isRecording, streamingActive,
                           streamActive, asrResult, intent, ttsResult, tpc,
                           speakingHandled, newsData, newsIndex,
                           newsTtsGenerating, newsTtsResult, tloc>>
        ELSE IF newsData = 0
          THEN /\ NewsEmptyExit
               /\ UNCHANGED <<isNewsAction, newsData, isRecording,
                              streamingActive, streamActive, asrResult, intent,
                              ttsResult, speakingHandled, newsIndex,
                              newsTtsGenerating, newsTtsResult, tloc>>
        ELSE IF idx >= newsData
          THEN /\ speakingHandled' = FALSE /\ isNewsAction' = FALSE
               /\ newsData' = -1 /\ newsIndex' = 0 /\ newsTtsResult' = NoTts
               /\ state' = "IDLE"
               /\ tpc' = "newsdone2"
               /\ UNCHANGED <<isRecording, streamingActive, streamActive,
                              asrResult, intent, ttsResult, newsTtsGenerating, tloc>>
        ELSE /\ speakingHandled' = TRUE /\ newsIndex' = idx
             /\ IF newsTtsResult # NoTts
                  THEN tpc' = "news_play" /\ UNCHANGED <<newsTtsGenerating, tloc>>
                  ELSE IF ~newsTtsGenerating
                    THEN newsTtsGenerating' = TRUE /\ tloc' = idx /\ tpc' = "news_tts"
                    ELSE UNCHANGED <<newsTtsGenerating, tloc, tpc>>
             /\ UNCHANGED <<state, isNewsAction, newsData, newsTtsResult,
                            isRecording, streamingActive, streamActive,
                            asrResult, intent, ttsResult>>
  /\ UNCHANGED <<slot, lock, wakeFlag, listenStart, newsFileIndex, newsSession,
                 sinkVars, finalResult, recogStarted, thrVars, rpc, envVars>>
  /\ UNCHANGED <<musicVars, frameVars, chatVars, nluVars, rtcVars>>

(* _handle_news with an empty title list, after the state write *)
TickNewsEmpty2 ==
  /\ tpc = "news_empty"
  /\ isNewsAction' = FALSE /\ newsData' = -1
  /\ ResetStreamingRecorder /\ ClearStateData
  /\ tpc' = "loop"
  /\ UNCHANGED <<state, slot, lock, wakeFlag, listenStart, speakingHandled,
                 newsIndex, newsTtsGenerating, newsTtsResult, newsFileIndex,
                 newsSession, sinkVars, finalResult, recogStarted, thrVars,
                 tloc, rpc, envVars>>
  /\ UNCHANGED <<musicVars, frameVars, chatVars, nluVars, rtcVars>>

(* _handle_news, all headlines played: from the slot reset to the end *)
TickNewsDone2 ==
  /\ tpc = "newsdone2" /\ lock = "free"
  /\ slot' = 0
  /\ ResetStreamingRecorder
  /\ ClearStateData
  /\ tpc' = "loop"
  /\ UNCHANGED <<state, lock, wakeFlag, listenStart, speakingHandled, newsVars,
                 sinkVars, finalResult, recogStarted, thrVars, tloc, rpc, envVars>>
  /\ UNCHANGED <<musicVars, frameVars, chatVars, nluVars, rtcVars>>

(* _handle_news: a TTS is ready, the news playback task is started unless  *)
(* the slot's task is alive                                                *)
TickNewsPlaySpawn ==
  /\ tpc = "news_play" /\ lock = "free"
  /\ IF SlotAlive THEN UNCHANGED <<thr, slot>> ELSE Spawn("nplay", "np_start", 0)
  /\ tpc' = "loop"
  /\ UNCHANGED <<state, lock, cycleVars, newsVars, sinkVars, recVars, rec,
                 tloc, rpc, envVars>>
  /\ UNCHANGED <<musicVars, frameVars, chatVars, nluVars, rtcVars>>

(* _handle_news: no TTS is ready, the news TTS task for titles[tloc] is    *)
(* started unless the slot's task is alive                                 *)
TickNewsTtsSpawn ==
  /\ tpc = "news_tts" /\ lock = "free"
  /\ IF SlotAlive THEN UNCHANGED <<thr, slot>> ELSE Spawn("ntts", "n_start", tloc)
  /\ tpc' = "loop" /\ tloc' = 0
  /\ UNCHANGED <<state, lock, cycleVars, newsVars, sinkVars, recVars, rec,
                 rpc, envVars>>
  /\ UNCHANGED <<musicVars, frameVars, chatVars, nluVars, rtcVars>>

(* _handle_calling: pass *)
TickCalling ==
  /\ tpc = "loop" /\ state = "CALLING"
  /\ UNCHANGED vars

(* ---- run: the ways the main loop ends, and cleanup ---- *)

(* self.running: cleared by the QUIT event, by the Q / Esc branch and by   *)
(* cleanup, each of which takes the tick thread out of the loop            *)
Running == tpc \notin {"cleanup", "cl_slot", "cl_join", "returned"}

(* run: K_ESCAPE or K_q: running is cleared and run returns at once *)
TickQuitKey ==
  /\ tpc = "loop"
  /\ tpc' = "returned"
  /\ UNCHANGED <<coreVars, cycleVars, newsVars, sinkVars, recVars, thrVars,
                 tloc, rpc, envVars>>
  /\ UNCHANGED <<musicVars, frameVars, chatVars, nluVars, rtcVars>>

(* run: pygame.QUIT: running is cleared and the loop test fails; the       *)
(* handler pass between the event and the test is a pass like any other    *)
TickQuitEvent ==
  /\ tpc = "loop"
  /\ tpc' = "cleanup"
  /\ UNCHANGED <<coreVars, cycleVars, newsVars, sinkVars, recVars, thrVars,
                 tloc, rpc, envVars>>
  /\ UNCHANGED <<musicVars, frameVars, chatVars, nluVars, rtcVars>>

(* cleanup: _stop_background_tasks up to its lock *)
Cleanup ==
  /\ tpc = "cleanup"
  /\ StopFlags
  /\ tpc' = "cl_slot"
  /\ UNCHANGED <<coreVars, cycleVars, newsVars, sinkVars, finalResult,
                 recogStarted, streamActive, thrVars, tloc, rpc, envVars>>
  /\ UNCHANGED <<musicVars, frameVars, chatVars, nluVars, rtcVars>>

(* cleanup: the slot is cleared under the lock, the player is stopped and  *)
(* the capture stream is stopped and closed (_music_action is None)        *)
CleanupSlot ==
  /\ tpc = "cl_slot" /\ lock = "free"
  /\ slot' = 0
  /\ speaker' = 0 /\ playerIsPlaying' = FALSE
  /\ streamActive' = FALSE
  /\ tpc' = "cl_join"
  /\ UNCHANGED <<state, lock, cycleVars, newsVars, isRecording, streamingActive,
                 finalResult, recogStarted, thrVars, tloc, rpc, envVars>>
  /\ UNCHANGED <<musicVars, frameVars, chatVars, nluVars, rtcVars>>

(* cleanup: the last `with self._task_lock` (the slot is None, or the join *)
(* of at most 2 s is over), after which cleanup and run return             *)
CleanupJoin ==
  /\ tpc = "cl_join" /\ lock = "free"
  /\ tpc' = "returned"
  /\ UNCHANGED <<coreVars, cycleVars, newsVars, sinkVars, recVars, thrVars,
                 tloc, rpc, envVars>>
  /\ UNCHANGED <<musicVars, frameVars, chatVars, nluVars, rtcVars>>

(* ---- _waiting_task and StreamingRecorder.record_and_transcribe ---- *)

(* _waiting_task: the loop test, and record_and_transcribe up to its wake  *)
(* loop                                                                    *)
WaitLoop(i) ==
  /\ At(i, "wake", "w_loop")
  /\ IF ~Running \/ state \notin {"IDLE", "LISTENING"}
       THEN thr' = To(i, "w_exit") /\ UNCHANGED isRecording
       ELSE IF ~streamActive
         THEN thr' = [thr EXCEPT ![i].pc = "w_res", ![i].res = "none"]
              /\ UNCHANGED isRecording
         ELSE thr' = To(i, "rt_wake") /\ isRecording' = TRUE
  /\ UNCHANGED <<coreVars, cycleVars, newsVars, sinkVars, streamingActive,
                 finalResult, recogStarted, streamActive, rec, ctlVars, envVars>>
  /\ UNCHANGED <<musicVars, frameVars, chatVars, nluVars, rtcVars>>

(* record_and_transcribe: the wake loop ends because is_recording was      *)
(* cleared; None is returned                                               *)
WakeStopped(i) ==
  /\ At(i, "wake", "rt_wake")
  /\ ~isRecording
  /\ thr' = [thr EXCEPT ![i].pc = "w_res", ![i].res = "none"]
  /\ UNCHANGED <<coreVars, cycleVars, newsVars, sinkVars, recVars, rec,
                 ctlVars, envVars>>
  /\ UNCHANGED <<musicVars, frameVars, chatVars, nluVars, rtcVars>>

(* record_and_transcribe: the wake word is detected in a frame; the        *)
(* callback _on_wake_word_detected sets the event                          *)
WakeDetected(i) ==
  /\ At(i, "wake", "rt_wake")
  /\ isRecording
  /\ wakesLeft > 0
  /\ wakesLeft' = wakesLeft - 1
  /\ wakeFlag' = TRUE
  /\ thr' = To(i, "rt_init")
  /\ UNCHANGED <<coreVars, listenStart, speakingHandled, asrResult, intent,
                 ttsResult, newsVars, sinkVars, recVars, rec, ctlVars,
                 callsLeft, entersLeft, finalsLeft>>
  /\ UNCHANGED <<musicVars, frameVars, chatVars, nluVars, rtcVars>>

(* record_and_transcribe: the per-cycle fields are reset and the           *)
(* recognition thread is started                                           *)
StreamInit(i) ==
  /\ At(i, "wake", "rt_init")
  /\ FreeRecs # {}
  /\ finalResult' = "none"
  /\ streamingActive' = TRUE
  /\ recogStarted' = FALSE
  /\ rec' = [rec EXCEPT ![NewRec] = TRUE]
  /\ thr' = To(i, "rt_stream")
  /\ UNCHANGED <<coreVars, cycleVars, newsVars, sinkVars, isRecording,
                 streamActive, ctlVars, envVars>>
  /\ UNCHANGED <<musicVars, frameVars, chatVars, nluVars, rtcVars>>

(* record_and_transcribe: the streaming loop ends, either because a flag   *)
(* was cleared or because, on a frame, the initial wait or the silence     *)
(* limit has elapsed                                                       *)
StreamEnd(i) ==
  /\ At(i, "wake", "rt_stream")
  /\ \/ (~isRecording \/ ~streamingActive) /\ UNCHANGED streamingActive
     \/ isRecording /\ streamingActive /\ streamActive /\ streamingActive' = FALSE
  /\ thr' = To(i, "rt_ret")
  /\ UNCHANGED <<coreVars, cycleVars, newsVars, sinkVars, isRecording,
                 finalResult, recogStarted, streamActive, rec, ctlVars, envVars>>
  /\ UNCHANGED <<musicVars, frameVars, chatVars, nluVars, rtcVars>>

(* record_and_transcribe: after the join (which may time out) the final    *)
(* result is returned and is_recording cleared                             *)
StreamReturn(i) ==
  /\ At(i, "wake", "rt_ret")
  /\ thr' = [thr EXCEPT ![i].pc = "w_res", ![i].res = finalResult]
  /\ isRecording' = FALSE
  /\ UNCHANGED <<coreVars, cycleVars, newsVars, sinkVars, streamingActive,
                 finalResult, recogStarted, streamActive, rec, ctlVars, envVars>>
  /\ UNCHANGED <<musicVars, frameVars, chatVars, nluVars, rtcVars>>

(* _waiting_task: what it does with the returned result *)
WaitResult(i) ==
  /\ At(i, "wake", "w_res")
  /\ IF thr[i].res # "none"
       THEN /\ asrResult' = thr[i].res
            /\ listenStart' = FALSE
            /\ state' = "THINKING"
            /\ thr' = [thr EXCEPT ![i].pc = "w_exit", ![i].res = "none"]
       ELSE /\ UNCHANGED <<asrResult, state>>
            /\ IF state = "LISTENING"
                 THEN thr' = To(i, "w_toidle") /\ UNCHANGED listenStart
                 ELSE IF state = "IDLE"
                   THEN thr' = To(i, "w_loop") /\ listenStart' = FALSE
                   ELSE thr' = To(i, "w_exit") /\ UNCHANGED listenStart
  /\ UNCHANGED <<slot, lock, wakeFlag, speakingHandled, intent, ttsResult,
                 newsVars, sinkVars, recVars, rec, ctlVars, envVars>>
  /\ UNCHANGED <<musicVars, frameVars, chatVars, nluVars, rtcVars>>

(* _waiting_task: the state was LISTENING, it is set to IDLE *)
WaitToIdle(i) ==
  /\ At(i, "wake", "w_toidle")
  /\ state' = "IDLE"
  /\ listenStart' = FALSE
  /\ thr' = To(i, "w_loop")
  /\ UNCHANGED <<slot, lock, wakeFlag, speakingHandled, asrResult, intent,
                 ttsResult, newsVars, sinkVars, recVars, rec, ctlVars, envVars>>
  /\ UNCHANGED <<musicVars, frameVars, chatVars, nluVars, rtcVars>>

(* The last statement of every task: `with self._task_lock:                *)
(* self._background_task = None`, after which the thread is dead           *)
TaskExit(i) ==
  /\ thr[i].pc \in {"w_exit", "t_exit", "p_exit", "n_exit", "np_exit"}
  /\ lock = "free"
  /\ slot' = 0
  /\ thr' = [thr EXCEPT ![i] = Dead]
  /\ UNCHANGED <<state, lock, cycleVars, newsVars, sinkVars, recVars, rec,
                 ctlVars, envVars>>
  /\ UNCHANGED <<musicVars, frameVars, chatVars, nluVars, rtcVars>>

(* ---- the capture stream and its frame queue ---- *)

(* The states in which the assistant works on a request or reads news *)
BusyStates == {"THINKING", "ACTING", "CHATTING", "SPEAKING", "NEWS"}

(* audio_callback: the frame is put on the queue; the model keeps, for     *)
(* each frame, whether it was captured in one of the busy states           *)
AudioCallback ==
  /\ streamActive /\ framesLeft > 0
  /\ framesLeft' = framesLeft - 1
  /\ audioQueue' = Append(audioQueue, state \in BusyStates)
  /\ UNCHANGED <<coreVars, cycleVars, newsVars, sinkVars, recVars, thrVars,
                 ctlVars, envVars, musicVars, chatVars, nluVars, rtcVars>>

(* record_and_transcribe, the wake loop: a frame is taken from the queue   *)
(* and the wake word is not in it                                          *)
WakeGet(i) ==
  /\ At(i, "wake", "rt_wake") /\ isRecording
  /\ audioQueue # <<>>
  /\ audioQueue' = Tail(audioQueue)
  /\ UNCHANGED <<coreVars, cycleVars, newsVars, sinkVars, recVars, thrVars,
                 ctlVars, envVars, framesLeft, musicVars, chatVars, nluVars, rtcVars>>

(* record_and_transcribe, the streaming loop: a frame is taken from the    *)
(* queue and sent to the service; no limit has elapsed                     *)
StreamGet(i) ==
  /\ At(i, "wake", "rt_stream") /\ isRecording /\ streamingActive
  /\ audioQueue # <<>>
  /\ audioQueue' = Tail(audioQueue)
  /\ UNCHANGED <<coreVars, cycleVars, newsVars, sinkVars, recVars, thrVars,
                 ctlVars, envVars, framesLeft, musicVars, chatVars, nluVars, rtcVars>>

(* ---- _process_google_responses ---- *)

(* an interim transcript with text *)
RecInterim(r) ==
  /\ RecAlive(r)
  /\ ~recogStarted
  /\ recogStarted' = TRUE
  /\ UNCHANGED <<coreVars, cycleVars, newsVars, sinkVars, isRecording,
                 streamingActive, finalResult, streamActive, thrVars, ctlVars,
                 envVars>>
  /\ UNCHANGED <<musicVars, frameVars, chatVars, nluVars, rtcVars>>

(* a final transcript with text: it is stored and streaming is stopped;    *)
(* the loop over the responses goes on until the stream ends, which is     *)
(* either now or after further responses (finalsLeft: the further final    *)
(* transcripts the service still sends in this run)                        *)
RecFinal(r) ==
  /\ RecAlive(r)
  /\ \E t \in Transcripts : finalResult' = t
  /\ recogStarted' = TRUE
  /\ streamingActive' = FALSE
  /\ \E more \in {b \in BOOLEAN : b => finalsLeft > 0} :
       /\ rec' = [rec EXCEPT ![r] = more]
       /\ finalsLeft' = IF more THEN finalsLeft - 1 ELSE finalsLeft
  /\ UNCHANGED <<coreVars, cycleVars, newsVars, sinkVars, isRecording,
                 streamActive, thr, ctlVars, wakesLeft, callsLeft, entersLeft>>
  /\ UNCHANGED <<musicVars, frameVars, chatVars, nluVars, rtcVars>>

(* the response stream ends (the request generator stopped, or an error)   *)
RecEnd(r) ==
  /\ RecAlive(r)
  /\ rec' = [rec EXCEPT ![r] = FALSE]
  /\ UNCHANGED <<coreVars, cycleVars, newsVars, sinkVars, recVars, thr,
                 ctlVars, envVars>>
  /\ UNCHANGED <<musicVars, frameVars, chatVars, nluVars, rtcVars>>

(* ---- _thinking_task ---- *)

(* PatternNLU.recognize on a transcript class: the action it names, or     *)
(* "none" when no pattern matches                                          *)
Recognize(text) == IF text = "news" THEN "news" ELSE "none"

(* _thinking_task: the transcript is read and matched; a missing           *)
(* transcript raises and the handler sets IDLE                             *)
ThinkStart(i) ==
  /\ At(i, "think", "t_start")
  /\ IF asrResult = "none"
       THEN state' = "IDLE" /\ thr' = To(i, "t_exit") /\ UNCHANGED intent
       ELSE IF Recognize(asrResult) # "none"
         THEN intent' = Recognize(asrResult) /\ state' = "ACTING"
              /\ thr' = To(i, "t_exit")
         ELSE thr' = To(i, "t_llm") /\ UNCHANGED <<intent, state>>
  /\ UNCHANGED <<slot, lock, wakeFlag, listenStart, speakingHandled, asrResult,
                 ttsResult, newsVars, sinkVars, recVars, rec, ctlVars, envVars>>
  /\ UNCHANGED <<musicVars, frameVars, chatVars, nluVars, rtcVars>>

(* The reply texts the code holds; "chat" stands for a text of the service *)
SorryReply == "Sorry, I don't understand your meaning."
ParseErrorReply == "Error: Could not parse AI response."

(* LLMClient.ask: the text of the LLMResponse it returns, "raise" when an  *)
(* exception leaves it (only KeyError and IndexError are caught inside)    *)
Ask(o) ==
  CASE o = "ok" -> "chat"
    [] o \in {"http_error", "no_choices"} -> ParseErrorReply
    [] OTHER -> "raise"

(* _thinking_task: llm_client.ask returned or raised; either way a chat    *)
(* intent is stored, here as its reply text                                *)
ThinkLlm(i) ==
  /\ At(i, "think", "t_llm")
  /\ intent' = IF Ask(llm) = "raise" THEN SorryReply ELSE Ask(llm)
  /\ state' = "CHATTING"
  /\ thr' = To(i, "t_exit")
  /\ UNCHANGED <<slot, lock, wakeFlag, listenStart, speakingHandled, asrResult,
                 ttsResult, newsVars, sinkVars, recVars, rec, ctlVars, envVars>>
  /\ UNCHANGED <<musicVars, frameVars, chatVars, nluVars, rtcVars>>

(* ---- AudioPlayer.play(path, blocking=True), called by both playback     *)
(* tasks ---- *)

(* sd.play: this thread's audio replaces whatever the device was playing *)
PlayerSdPlay(i) ==
  /\ thr[i].pc = "pl_sdplay"
  /\ speaker' = i
  /\ thr' = To(i, "pl_wait")
  /\ UNCHANGED <<coreVars, cycleVars, newsVars, playerIsPlaying, recVars, rec,
                 ctlVars, envVars>>
  /\ UNCHANGED <<musicVars, frameVars, chatVars, nluVars, rtcVars>>

(* sd.wait returns (the audio ended, was stopped or was replaced) and the  *)
(* finally clause clears is_playing                                        *)
PlayerWaitDone(i) ==
  /\ thr[i].pc = "pl_wait"
  /\ speaker' = IF speaker = i THEN 0 ELSE speaker
  /\ playerIsPlaying' = FALSE
  /\ thr' = To(i, IF thr[i].kind = "play" THEN "p_after" ELSE "np_after")
  /\ UNCHANGED <<coreVars, cycleVars, newsVars, recVars, rec, ctlVars, envVars>>
  /\ UNCHANGED <<musicVars, frameVars, chatVars, nluVars, rtcVars>>

(* ---- _playing_task ---- *)

(* _playing_task: player.play is entered; with current_tts_result None the *)
(* attribute access raises and the except branch runs                      *)
PlayStart(i) ==
  /\ At(i, "play", "p_start")
  /\ IF ttsResult = "none"
       THEN thr' = To(i, "p_after") /\ UNCHANGED playerIsPlaying
       ELSE thr' = To(i, "pl_sdplay") /\ playerIsPlaying' = TRUE
  /\ UNCHANGED <<coreVars, cycleVars, newsVars, speaker, recVars, rec,
                 ctlVars, envVars>>
  /\ UNCHANGED <<musicVars, frameVars, chatVars, nluVars, rtcVars>>

(* _playing_task after the playback (the try and the except branch do the  *)
(* same): the state write and the handled flag                             *)
PlayAfter(i) ==
  /\ At(i, "play", "p_after")
  /\ speakingHandled' = FALSE
  /\ IF isNewsAction
       THEN state' = "NEWS" /\ thr' = To(i, "p_exit")
       ELSE state' = "IDLE" /\ thr' = To(i, "p_clear")
  /\ UNCHANGED <<slot, lock, wakeFlag, listenStart, asrResult, intent, ttsResult,
                 newsVars, sinkVars, recVars, rec, ctlVars, envVars>>
  /\ UNCHANGED <<musicVars, frameVars, chatVars, nluVars, rtcVars>>

(* _playing_task, not a news reply: _clear_state_data after the state write *)
PlayClear(i) ==
  /\ At(i, "play", "p_clear")
  /\ ClearStateData
  /\ thr' = To(i, "p_exit")
  /\ UNCHANGED <<coreVars, wakeFlag, listenStart, speakingHandled, newsVars,
                 sinkVars, recVars, rec, ctlVars, envVars>>
  /\ UNCHANGED <<musicVars, frameVars, chatVars, nluVars, rtcVars>>

(* ---- _news_tts_task ---- *)

(* _news_tts_task: the alternate slot is computed and synthesize is called *)
NewsTtsStart(i) ==
  /\ At(i, "ntts", "n_start")
  /\ thr' = [thr EXCEPT ![i].pc = "n_synth", ![i].m = 1 - newsFileIndex]
  /\ UNCHANGED <<coreVars, cycleVars, newsVars, sinkVars, recVars, rec,
                 ctlVars, envVars>>
  /\ UNCHANGED <<musicVars, frameVars, chatVars, nluVars, rtcVars>>

(* _news_tts_task: synthesize returned and shutil.copy into the slot file  *)
(* begins, or synthesize raised and the except branch runs                 *)
NewsTtsSynth(i) ==
  /\ At(i, "ntts", "n_synth")
  /\ \E ok \in BOOLEAN :
       IF ok THEN thr' = To(i, "n_copy") /\ UNCHANGED newsTtsGenerating
             ELSE thr' = To(i, "n_exit") /\ newsTtsGenerating' = FALSE
  /\ UNCHANGED <<coreVars, cycleVars, isNewsAction, newsData, newsIndex,
                 newsTtsResult, newsFileIndex, newsSession, sinkVars, recVars,
                 rec, ctlVars, envVars>>
  /\ UNCHANGED <<musicVars, frameVars, chatVars, nluVars, rtcVars>>

(* _news_tts_task: the copy is over; the result is published and the file  *)
(* index flipped                                                           *)
NewsTtsCopied(i) ==
  /\ At(i, "ntts", "n_copy")
  /\ newsTtsResult' = [slot |-> thr[i].m, title |-> thr[i].n, s |-> thr[i].s]
  /\ newsFileIndex' = thr[i].m
  /\ newsTtsGenerating' = FALSE
  /\ thr' = To(i, "n_exit")
  /\ UNCHANGED <<coreVars, cycleVars, isNewsAction, newsData, newsIndex,
                 newsSession, sinkVars, recVars, rec, ctlVars, envVars>>
  /\ UNCHANGED <<musicVars, frameVars, chatVars, nluVars, rtcVars>>

(* ---- _news_playing_task ---- *)

(* _news_playing_task: without a ready TTS it returns; otherwise           *)
(* player.play is entered on the ready file (n: its slot)                  *)
NewsPlayStart(i) ==
  /\ At(i, "nplay", "np_start")
  /\ IF newsTtsResult = NoTts
       THEN thr' = To(i, "np_exit") /\ UNCHANGED playerIsPlaying
       ELSE /\ thr' = [thr EXCEPT ![i].pc = "pl_sdplay",
                                  ![i].n = newsTtsResult.slot,
                                  ![i].m = newsTtsResult.title]
            /\ playerIsPlaying' = TRUE
  /\ UNCHANGED <<coreVars, cycleVars, newsVars, speaker, recVars, rec,
                 ctlVars, envVars>>
  /\ UNCHANGED <<musicVars, frameVars, chatVars, nluVars, rtcVars>>

(* _news_playing_task after the playback (and its except branch): the     *)
(* ready TTS is dropped                                                    *)
NewsPlayAfter(i) ==
  /\ At(i, "nplay", "np_after")
  /\ newsTtsResult' = NoTts
  /\ thr' = To(i, "np_inc")
  /\ UNCHANGED <<coreVars, cycleVars, isNewsAction, newsData, newsIndex,
                 newsTtsGenerating, newsFileIndex, newsSession, sinkVars,
                 recVars, rec, ctlVars, envVars>>
  /\ UNCHANGED <<musicVars, frameVars, chatVars, nluVars, rtcVars>>

(* _news_playing_task: `self._news_index += 1` *)
NewsPlayInc(i) ==
  /\ At(i, "nplay", "np_inc")
  /\ newsIndex' = newsIndex + 1
  /\ thr' = To(i, "np_exit")
  /\ UNCHANGED <<coreVars, cycleVars, isNewsAction, newsData, newsTtsGenerating,
                 newsTtsResult, newsFileIndex, newsSession, sinkVars, recVars,
                 rec, ctlVars, envVars>>
  /\ UNCHANGED <<musicVars, frameVars, chatVars, nluVars, rtcVars>>

(* ---- the call gateway's callbacks ---- *)

(* _on_call_start, first statement (an offer arrived) *)
CallStart ==
  /\ rpc = "r_idle" /\ callsLeft > 0
  /\ callsLeft' = callsLeft - 1
  /\ state' = "CALLING"
  /\ rpc' = "cs_stop"
  /\ UNCHANGED <<slot, lock, cycleVars, newsVars, sinkVars, recVars, thrVars,
                 tpc, tloc, wakesLeft, entersLeft, finalsLeft>>
  /\ UNCHANGED <<musicVars, frameVars, chatVars, nluVars, rtcVars>>

(* _on_call_start: StreamingRecorder.stop *)
CallStopRecorder ==
  /\ rpc = "cs_stop"
  /\ isRecording' = FALSE
  /\ streamActive' = FALSE
  /\ rpc' = "cs_lock"
  /\ UNCHANGED <<coreVars, cycleVars, newsVars, sinkVars, streamingActive,
                 finalResult, recogStarted, thrVars, tpc, tloc, envVars>>
  /\ UNCHANGED <<musicVars, frameVars, chatVars, nluVars, rtcVars>>

(* _on_call_start: the lock is taken; with a live task in the slot the     *)
(* polling wait begins inside it                                           *)
CallWaitBegin ==
  /\ rpc = "cs_lock" /\ lock = "free"
  /\ IF SlotAlive THEN lock' = "rtc" /\ rpc' = "cs_poll"
                  ELSE lock' = lock /\ rpc' = "cs_ui"
  /\ UNCHANGED <<state, slot, cycleVars, newsVars, sinkVars, recVars, thrVars,
                 tpc, tloc, envVars>>
  /\ UNCHANGED <<musicVars, frameVars, chatVars, nluVars, rtcVars>>

(* _on_call_start: one poll of the wait; it ends when the task is dead or  *)
(* the ten polls are used up                                               *)
CallPoll ==
  /\ rpc = "cs_poll"
  /\ \E timeout \in BOOLEAN :
       IF ~Alive(slot) \/ timeout
         THEN lock' = "free" /\ rpc' = "cs_ui"
         ELSE UNCHANGED <<lock, rpc>>
  /\ UNCHANGED <<state, slot, cycleVars, newsVars, sinkVars, recVars, thrVars,
                 tpc, tloc, envVars>>
  /\ UNCHANGED <<musicVars, frameVars, chatVars, nluVars, rtcVars>>

(* _on_call_start: the second `with self._task_lock` (UI switch); it       *)
(* returns                                                                 *)
CallUi ==
  /\ rpc = "cs_ui" /\ lock = "free"
  /\ rpc' = "ws_track"
  /\ UNCHANGED <<coreVars, cycleVars, newsVars, sinkVars, recVars, thrVars,
                 tpc, tloc, envVars>>
  /\ UNCHANGED <<musicVars, frameVars, chatVars, nluVars, rtcVars>>

(* websocket_handler, offer: the peer connection is created, the           *)
(* AudioInputTrack is started and added to it                              *)
CallAddTrack ==
  /\ rpc = "ws_track"
  /\ pcOpen' = TRUE
  /\ trackOn' = TRUE
  /\ rpc' = "ws_answer"
  /\ UNCHANGED <<coreVars, cycleVars, newsVars, sinkVars, recVars, thrVars,
                 tpc, tloc, envVars>>
  /\ UNCHANGED <<musicVars, frameVars, chatVars, nluVars>>

(* websocket_handler, offer: the descriptions are set and the answer is    *)
(* sent, or one of these raises and the handler goes to its finally        *)
CallAnswer ==
  /\ rpc = "ws_answer"
  /\ \E ok \in BOOLEAN : rpc' = IF ok THEN "in_call" ELSE "ws_stop"
  /\ UNCHANGED <<coreVars, cycleVars, newsVars, sinkVars, recVars, thrVars,
                 tpc, tloc, envVars>>
  /\ UNCHANGED <<musicVars, frameVars, chatVars, nluVars, rtcVars>>

(* websocket_handler: the message loop ends (bye, a websocket error, an    *)
(* exception, or the socket is closed)                                     *)
CallHangup ==
  /\ rpc = "in_call"
  /\ rpc' = "ws_stop"
  /\ UNCHANGED <<coreVars, cycleVars, newsVars, sinkVars, recVars, thrVars,
                 tpc, tloc, envVars>>
  /\ UNCHANGED <<musicVars, frameVars, chatVars, nluVars, rtcVars>>

(* websocket_handler, finally: the AudioInputTrack is stopped *)
CallStopTrack ==
  /\ rpc = "ws_stop"
  /\ trackOn' = FALSE
  /\ rpc' = "ws_close"
  /\ UNCHANGED <<coreVars, cycleVars, newsVars, sinkVars, recVars, thrVars,
                 tpc, tloc, envVars, pcOpen>>
  /\ UNCHANGED <<musicVars, frameVars, chatVars, nluVars>>

(* websocket_handler, finally: the peer connection is closed; on_call_end  *)
(* is called next                                                          *)
CallClosePc ==
  /\ rpc = "ws_close"
  /\ pcOpen' = FALSE
  /\ rpc' = "ce_stream"
  /\ UNCHANGED <<coreVars, cycleVars, newsVars, sinkVars, recVars, thrVars,
                 tpc, tloc, envVars, trackOn>>
  /\ UNCHANGED <<musicVars, frameVars, chatVars, nluVars>>

(* _on_call_end: the capture stream is re-initialized *)
CallEnd ==
  /\ rpc = "ce_stream"
  /\ streamActive' = TRUE
  /\ rpc' = "ce_idle"
  /\ UNCHANGED <<coreVars, cycleVars, newsVars, sinkVars, isRecording,
                 streamingActive, finalResult, recogStarted, thrVars, tpc, tloc,
                 envVars>>
  /\ UNCHANGED <<musicVars, frameVars, chatVars, nluVars, rtcVars>>

(* _on_call_end: the state is set to IDLE *)
CallEndIdle ==
  /\ rpc = "ce_idle"
  /\ state' = "IDLE"
  /\ rpc' = "r_idle"
  /\ UNCHANGED <<slot, lock, cycleVars, newsVars, sinkVars, recVars, thrVars,
                 tpc, tloc, envVars>>
  /\ UNCHANGED <<musicVars, frameVars, chatVars, nluVars, rtcVars>>

(* ---- the program ---- *)

(* ---- MusicAction: execute, stop and the two playback threads ---- *)

(* `thread and thread.is_alive()` for a music thread id *)
MusicAlive(i) == IF i = 0 THEN FALSE ELSE mthr[i].pc # "dead"

(* thread.join(timeout=2.0) returns: the thread is gone, or the two        *)
(* seconds pass while it is blocked in the HTTP download (requests.get     *)
(* with timeout=30), where it tests the flag only between chunks. A thread *)
(* in its playback loop polls every 100 ms and is gone in time.            *)
JoinReturns(i) ==
  IF MusicAlive(i) THEN mthr[i].pc = "dl" ELSE TRUE

(* execute: `if not query`. AnyQueryPlays is execute without that test.   *)
AnyQueryPlays(q) == FALSE
EmptyQuery(q) == q = "empty"

(* The lock section of _prepare_new_playback and of stop: the flag is      *)
(* cleared, sd.stop() silences the device, the thread is remembered.       *)
StopPlayback ==
  /\ musicIsPlaying' = FALSE
  /\ sdOut' = 0
  /\ cJoin' = playbackThread

(* execute(params) up to its first return or to the join of                *)
(* _prepare_new_playback                                                   *)
MusicExecute(q) ==
  /\ cpc = "idle" /\ musicCallsLeft > 0
  /\ musicCallsLeft' = musicCallsLeft - 1
  /\ cOp' = q
  /\ IF EmptyQuery(q)
       THEN /\ ret' = "fail" /\ cpc' = "idle"
            /\ UNCHANGED <<musicIsPlaying, sdOut, cJoin>>
       ELSE /\ ret' = "none" /\ cpc' = "x_join"
            /\ IF musicIsPlaying
                 THEN StopPlayback
                 ELSE cJoin' = playbackThread /\ UNCHANGED <<musicIsPlaying, sdOut>>
  /\ UNCHANGED <<playbackThread, mthr, appVars>>

(* _prepare_new_playback: the join is over (or was not needed) *)
MusicExecuteJoined ==
  /\ cpc = "x_join"
  /\ JoinReturns(cJoin)
  /\ cpc' = "x_start" /\ cJoin' = 0
  /\ UNCHANGED <<musicIsPlaying, playbackThread, mthr, sdOut, cOp, ret,
                 musicCallsLeft, appVars>>

(* execute after _prepare_new_playback: a missing preset file or an empty  *)
(* search result returns a failure; otherwise, under the lock, the flag is *)
(* set and the playback thread is created, stored and started.             *)
MusicExecuteStart ==
  /\ cpc = "x_start"
  /\ cpc' = "idle"
  /\ \/ /\ ret' = "fail"
        /\ UNCHANGED <<musicIsPlaying, playbackThread, mthr>>
     \/ \E i \in MusicThreads :
          /\ mthr[i].pc = "dead"
          /\ \A j \in MusicThreads : mthr[j].pc = "dead" => i <= j
          /\ musicIsPlaying' = TRUE
          /\ playbackThread' = i
          /\ mthr' = [mthr EXCEPT ![i] =
                        [pc |-> IF cOp = "preset" THEN "load" ELSE "url",
                         target |-> IF cOp = "preset" THEN "local" ELSE "track",
                         elapsed |-> 0, tmp |-> "none"]]
          /\ ret' = "ok"
  /\ UNCHANGED <<sdOut, cOp, cJoin, musicCallsLeft, appVars>>

(* stop() up to its early return or to its join *)
MusicStop ==
  /\ cpc = "idle" /\ musicCallsLeft > 0
  /\ musicCallsLeft' = musicCallsLeft - 1
  /\ cOp' = "stop"
  /\ IF ~musicIsPlaying
       THEN /\ ret' = "noop" /\ cpc' = "idle"
            /\ UNCHANGED <<musicIsPlaying, sdOut, cJoin>>
       ELSE /\ StopPlayback
            /\ ret' = "none" /\ cpc' = "s_join"
  /\ UNCHANGED <<playbackThread, mthr, appVars>>

(* stop(): the join is over (or was not needed) *)
MusicStopJoined ==
  /\ cpc = "s_join"
  /\ JoinReturns(cJoin)
  /\ cpc' = "idle" /\ cJoin' = 0 /\ ret' = "stopped"
  /\ UNCHANGED <<musicIsPlaying, playbackThread, mthr, sdOut, cOp,
                 musicCallsLeft, appVars>>

MusicTo(i, p) == [mthr EXCEPT ![i].pc = p]

(* _play_track_background before its try: without an audio URL the flag   *)
(* is cleared and the thread returns                                       *)
TrackUrl(i) ==
  /\ mthr[i].pc = "url"
  /\ \/ mthr' = MusicTo(i, "dl") /\ UNCHANGED musicIsPlaying
     \/ mthr' = [mthr EXCEPT ![i] = MusicDead] /\ musicIsPlaying' = FALSE
  /\ UNCHANGED <<playbackThread, sdOut, cpc, cOp, cJoin, ret, musicCallsLeft,
                 appVars>>

(* _play_track_background: the download. The chunks are written to a new  *)
(* NamedTemporaryFile(delete=False) and tmp_path is assigned after the     *)
(* loop, which a cleared flag breaks off. An exception goes to the finally *)
(* clause: from requests.get or raise_for_status before the file exists,   *)
(* from iter_content or write once it exists and tmp_path is still None.   *)
TrackDownload(i) ==
  /\ mthr[i].pc = "dl"
  /\ \/ mthr' = [mthr EXCEPT ![i].pc = "chk", ![i].tmp = "named"]
     \/ /\ musicIsPlaying
        /\ \E t \in {"none", "anon"} :
             mthr' = [mthr EXCEPT ![i].pc = "fin", ![i].tmp = t]
  /\ UNCHANGED <<musicIsPlaying, playbackThread, sdOut, cpc, cOp, cJoin, ret,
                 musicCallsLeft, appVars>>

(* _play_track_background: the flag test after the download; with the     *)
(* flag cleared the file is unlinked and the thread returns                *)
TrackCheck(i) ==
  /\ mthr[i].pc = "chk"
  /\ mthr' = IF musicIsPlaying
               THEN MusicTo(i, "load")
               ELSE [mthr EXCEPT ![i].pc = "fin", ![i].tmp = "none"]
  /\ UNCHANGED <<musicIsPlaying, playbackThread, sdOut, cpc, cOp, cJoin, ret,
                 musicCallsLeft, appVars>>

(* Both playback threads: sf.read and sd.play (this thread's audio         *)
(* replaces what the device was playing), or an exception                  *)
MusicSdPlay(i) ==
  /\ mthr[i].pc = "load"
  /\ \/ sdOut' = i /\ mthr' = MusicTo(i, "poll")
     \/ sdOut' = sdOut /\ mthr' = MusicTo(i, "fin")
  /\ UNCHANGED <<musicIsPlaying, playbackThread, cpc, cOp, cJoin, ret,
                 musicCallsLeft, appVars>>

(* One turn of the playback loop: the flag test, the length test, the     *)
(* sleep. PollDeaf is the loop without the flag test.                      *)
PollDeaf(i) ==
  IF mthr[i].elapsed >= MaxPolls
    THEN mthr' = MusicTo(i, "sdstop")
    ELSE mthr' = [mthr EXCEPT ![i].elapsed = @ + 1]
PollLoop(i) ==
  IF ~musicIsPlaying \/ mthr[i].elapsed >= MaxPolls
    THEN mthr' = MusicTo(i, "sdstop")
    ELSE mthr' = [mthr EXCEPT ![i].elapsed = @ + 1]

(* Both playback threads: one turn of `while True` *)
MusicPoll(i) ==
  /\ mthr[i].pc = "poll"
  /\ PollLoop(i)
  /\ UNCHANGED <<musicIsPlaying, playbackThread, sdOut, cpc, cOp, cJoin, ret,
                 musicCallsLeft, appVars>>

(* Both playback threads: sd.stop() after the loop *)
MusicSdStop(i) ==
  /\ mthr[i].pc = "sdstop"
  /\ sdOut' = 0
  /\ mthr' = MusicTo(i, "fin")
  /\ UNCHANGED <<musicIsPlaying, playbackThread, cpc, cOp, cJoin, ret,
                 musicCallsLeft, appVars>>

(* Both playback threads: the finally clause unlinks the file that        *)
(* tmp_path names, if any, and clears the flag. The dead thread's record   *)
(* keeps what is left of its file until the record is used again.          *)
MusicFinally(i) ==
  /\ mthr[i].pc = "fin"
  /\ musicIsPlaying' = FALSE
  /\ mthr' = [mthr EXCEPT ![i] =
                [MusicDead EXCEPT !.tmp = IF mthr[i].tmp = "named" THEN "none"
                                          ELSE mthr[i].tmp]]
  /\ UNCHANGED <<playbackThread, sdOut, cpc, cOp, cJoin, ret, musicCallsLeft,
                 appVars>>

MusicCaller ==
  \/ \E q \in Queries : MusicExecute(q)
  \/ MusicExecuteJoined \/ MusicExecuteStart
  \/ MusicStop \/ MusicStopJoined

MusicThread(i) ==
  \/ TrackUrl(i) \/ TrackDownload(i) \/ TrackCheck(i)
  \/ MusicSdPlay(i) \/ MusicPoll(i) \/ MusicSdStop(i) \/ MusicFinally(i)

NextMusic ==
  \/ MusicCaller
  \/ \E i \in MusicThreads : MusicThread(i)

SpecMusic == InitMusic /\ [][NextMusic]_vars

(* ---- PatternNLU.recognize: the loop over the patterns ---- *)

(* one pattern is searched for in the lowered text; a match returns the    *)
(* intent of the action "news"                                             *)
NluTry ==
  /\ nluResult = "pending" /\ nluPat <= Len(NewsPatterns)
  /\ IF Search(NewsPatterns[nluPat], LowerText(nluText))
       THEN nluResult' = "news" /\ nluPat' = nluPat
       ELSE nluResult' = nluResult /\ nluPat' = nluPat + 1
  /\ UNCHANGED <<coreVars, cycleVars, newsVars, sinkVars, recVars, thrVars,
                 ctlVars, envVars, frameVars, chatVars, nluText, musicVars, rtcVars>>

(* no pattern matched: None is returned *)
NluNone ==
  /\ nluResult = "pending" /\ nluPat > Len(NewsPatterns)
  /\ nluResult' = "none"
  /\ UNCHANGED <<coreVars, cycleVars, newsVars, sinkVars, recVars, thrVars,
                 ctlVars, envVars, frameVars, chatVars, nluText, nluPat, musicVars,
                 rtcVars>>

TickKeys == TickEnterNews \/ TickEnterNews2

TickState ==
  \/ TickIdle \/ TickIdleSpawn
  \/ TickListening \/ TickListenTimeout
  \/ TickThinking \/ TickThinkSpawn
  \/ TickActing \/ TickActingDone
  \/ TickChatting \/ TickChattingDone
  \/ TickSpeaking \/ TickSpeakSpawn
  \/ TickNews \/ TickNewsEmpty2 \/ TickNewsDone2
  \/ TickNewsPlaySpawn \/ TickNewsTtsSpawn

Tick == TickKeys \/ TickState

Task(i) ==
  \/ WaitLoop(i) \/ WakeStopped(i) \/ WakeDetected(i) \/ StreamInit(i)
  \/ StreamEnd(i) \/ StreamReturn(i) \/ WaitResult(i) \/ WaitToIdle(i)
  \/ ThinkStart(i) \/ ThinkLlm(i)
  \/ PlayStart(i) \/ PlayAfter(i) \/ PlayClear(i)
  \/ PlayerSdPlay(i) \/ PlayerWaitDone(i)
  \/ NewsTtsStart(i) \/ NewsTtsSynth(i) \/ NewsTtsCopied(i)
  \/ NewsPlayStart(i) \/ NewsPlayAfter(i) \/ NewsPlayInc(i)
  \/ TaskExit(i)

Recognition(r) == RecInterim(r) \/ RecFinal(r) \/ RecEnd(r)

Call ==
  \/ CallStart \/ CallStopRecorder \/ CallWaitBegin \/ CallPoll \/ CallUi
  \/ CallAddTrack \/ CallAnswer \/ CallHangup \/ CallStopTrack \/ CallClosePc
  \/ CallEnd \/ CallEndIdle

(* The assistant without incoming calls *)
Next ==
  \/ Tick
  \/ \E i \in Threads : Task(i)
  \/ \E r \in Recs : Recognition(r)

Spec == Init /\ [][Next]_vars

(* The assistant with incoming calls *)
NextCall ==
  \/ Next
  \/ Call
  \/ TickCalling

SpecCall == InitCall /\ [][NextCall]_vars

(* The recognizer's cycles alone: the handlers of IDLE and LISTENING, the  *)
(* wake-and-transcribe task and the response threads; a run ends where a   *)
(* transcript has taken the assistant to THINKING                          *)
ListenTick == TickIdle \/ TickIdleSpawn \/ TickListening \/ TickListenTimeout

ListenTask(i) ==
  \/ WaitLoop(i) \/ WakeStopped(i) \/ WakeDetected(i) \/ StreamInit(i)
  \/ StreamEnd(i) \/ StreamReturn(i) \/ WaitResult(i) \/ WaitToIdle(i)
  \/ TaskExit(i)

NextListen ==
  \/ ListenTick
  \/ \E i \in Threads : ListenTask(i)
  \/ \E r \in Recs : Recognition(r)

SpecListen == InitListen /\ [][NextListen]_vars

(* What the scheduling of the recognizer's cycles guarantees: the tick     *)
(* thread keeps calling its handlers and the listening timeout does        *)
(* expire; a started task runs on. Nothing is assumed about the capture    *)
(* stream: no frame has to arrive, so the streaming loop is only sure to   *)
(* end once one of its flags is cleared; nor about the user or the service *)
ListenFair ==
  /\ WF_vars(TickIdle) /\ WF_vars(TickIdleSpawn) /\ WF_vars(TickListenTimeout)
  /\ WF_vars(TickListening /\ tpc' = "listen2")
  /\ \A i \in Threads :
       /\ WF_vars(WaitLoop(i)) /\ WF_vars(WakeStopped(i)) /\ WF_vars(StreamInit(i))
       /\ WF_vars(StreamEnd(i) /\ UNCHANGED streamingActive)
       /\ WF_vars(StreamReturn(i)) /\ WF_vars(WaitResult(i))
       /\ WF_vars(WaitToIdle(i)) /\ WF_vars(TaskExit(i))

SpecListenFair == SpecListen /\ ListenFair

(* The recognizer's cycles, ended by the window being closed or by Q / Esc *)
NextQuit ==
  \/ NextListen
  \/ TickQuitKey \/ TickQuitEvent
  \/ Cleanup \/ CleanupSlot \/ CleanupJoin

SpecQuit == InitListen /\ [][NextQuit]_vars

(* PatternNLU.recognize on the texts of its test *)
NextNlu == NluTry \/ NluNone

SpecNlu == InitNlu /\ [][NextNlu]_vars

(* The assistant with the frames of the capture stream, no key pressed *)
NextFrames ==
  \/ TickState
  \/ \E i \in Threads : Task(i)
  \/ \E r \in Recs : Recognition(r)
  \/ AudioCallback
  \/ \E i \in Threads : WakeGet(i) \/ StreamGet(i)

SpecFrames == InitFrames /\ [][NextFrames]_vars

(* ---- properties ---- *)

(* The signaling thread is between the first statement of _on_call_start   *)
(* and the state write of _on_call_end                                     *)
InCall ==
  rpc \in {"cs_stop", "cs_lock", "cs_poll", "cs_ui", "ws_track", "ws_answer", "in_call",
           "ws_stop", "ws_close", "ce_stream", "ce_idle"}

(* C1: once _on_call_start has set the state to CALLING, the state is      *)
(* CALLING until _on_call_end sets it to IDLE; no task that was in flight  *)
(* when the call began changes it.                                         *)
C1_CallingKept == InCall => state = "CALLING"

(* C2: no thread asks for the non-reentrant _task_lock while it holds it:  *)
(* the tick thread never stands at the inner `with self._task_lock` of     *)
(* _handle_speaking with the outer one still held.                         *)
C2_NoSelfAcquire == ~(tpc = "spk_relock" /\ lock = "tick")

(* Background tasks of kind k that are alive *)
AliveOf(k) == {i \in Threads : thr[i].kind = k}

(* C3: at the step in which _on_call_start returns, the capture stream is  *)
(* stopped and no wake task is alive.                                      *)
C3_CallStartQuiesced ==
  [][CallUi => (~streamActive' /\ AliveOf("wake") = {})]_vars

(* C4: at most one background task of each kind is alive at any time; in   *)
(* particular two wake tasks never run together.                           *)
C4_OneTaskPerKind ==
  \A k \in {"wake", "think", "play", "ntts", "nplay"} : Cardinality(AliveOf(k)) <= 1

(* C5: every write of the state is made inside a `with self._task_lock`    *)
(* section (only _handle_idle and _handle_speaking have one around a       *)
(* write), and a transition decided on an observed state is applied only   *)
(* while the state is still the observed one: the listening timeout and    *)
(* the wake task's return to IDLE act on LISTENING only.                   *)
C5_WritesSerialized ==
  [][/\ state' # state => (TickIdle \/ TickSpeaking)
     /\ TickListenTimeout => state = "LISTENING"
     /\ \A i \in Threads : WaitToIdle(i) => state = "LISTENING"]_vars
(* The wake task i has detected the wake word in the record_and_transcribe *)
(* call it is in, or has just returned from                                *)
DetectedInCycle(i) ==
  thr[i].kind = "wake" /\ thr[i].pc \in {"rt_init", "rt_stream", "rt_ret", "w_res"}

(* C6: every transition from IDLE to LISTENING is caused by a wake         *)
(* detection that the wake task now in the slot made in its current cycle. *)
C6_ListeningFromWake ==
  [][(state = "IDLE" /\ state' = "LISTENING") => (SlotAlive /\ DetectedInCycle(slot))]_vars

(* C7: THINKING is entered only by the wake task storing the non-empty     *)
(* final transcript its recognizer cycle returned (never after an empty    *)
(* result), and the thinking task finds a transcript when it reads         *)
(* current_asr_result.                                                     *)
C7_ThinkingHasTranscript ==
  [][/\ (state # "THINKING" /\ state' = "THINKING") =>
          \E i \in Threads : WaitResult(i) /\ thr[i].res # "none" /\ asrResult' = thr[i].res
     /\ \A i \in Threads : ThinkStart(i) => asrResult # "none"]_vars

(* The Enter key has been handled to its end *)
EnterHandled == entersLeft < MaxEnters /\ tpc # "enter2"

(* C8: once Enter has been handled in NEWS, while the state is IDLE the    *)
(* capture stream is active and no news playback task's audio is output.   *)
C8_EnterSilences ==
  (EnterHandled /\ state = "IDLE") =>
    (streamActive /\ (speaker = 0 \/ thr[speaker].kind # "nplay"))

(* The news fields as the Enter handler leaves them *)
NewsReset == newsTtsResult = NoTts /\ ~newsTtsGenerating /\ newsIndex = 0

(* C9: the Enter handler leaves the ready-TTS handle null, the             *)
(* TTS-in-progress flag false and the news index 0, and from then on, for  *)
(* as long as the state stays IDLE, they stay so and the slot index is not *)
(* flipped.                                                                *)
C9_NewsFieldsStayReset ==
  [][/\ TickEnterNews2 => NewsReset'
     /\ (EnterHandled /\ state = "IDLE" /\ state' = "IDLE" /\ NewsReset) =>
          (NewsReset' /\ newsFileIndex' = newsFileIndex)]_vars

(* News playback tasks inside player.play, and news TTS tasks inside the   *)
(* copy into their slot file                                               *)
SlotPlayers == {i \in Threads : thr[i].kind = "nplay" /\ thr[i].pc \in {"pl_sdplay", "pl_wait"}}
SlotWriters == {i \in Threads : thr[i].kind = "ntts" /\ thr[i].pc = "n_copy"}

(* C10: at most one slot file is being played and at most one written, and *)
(* never the same one.                                                     *)
C10_DoubleBuffer ==
  /\ Cardinality(SlotPlayers) <= 1
  /\ Cardinality(SlotWriters) <= 1
  /\ \A p \in SlotPlayers, w \in SlotWriters : thr[p].n # thr[w].m

(* C11: within one news session the headlines are played in list order,    *)
(* each at most once, and the audio played while the index is i is the     *)
(* synthesis of titles[i] made in this session: a news playback that       *)
(* starts in NEWS plays the TTS of titles[newsIndex] of the current        *)
(* session, and during an initialised session the index only moves one up. *)
C11_HeadlinesInOrder ==
  [][/\ \A i \in Threads :
          (NewsPlayStart(i) /\ newsTtsResult # NoTts /\ state = "NEWS") =>
            (newsTtsResult.title = newsIndex /\ newsTtsResult.s = newsSession)
     /\ (state = "NEWS" /\ state' = "NEWS" /\ speakingHandled /\ speakingHandled') =>
          newsIndex' \in {newsIndex, newsIndex + 1}]_vars

(* C12: an unpreempted news session completes and returns to IDLE; the     *)
(* news loop never reaches a state where no news task is running and none  *)
(* will ever be spawned. NewsWaiting: the session has headlines left, no   *)
(* TTS is ready and the loop believes a TTS task is generating one, so     *)
(* _handle_news spawns nothing; then some task must be alive.              *)
NewsWaiting ==
  /\ state = "NEWS" /\ tpc = "loop" /\ speakingHandled
  /\ newsData > 0 /\ newsIndex < newsData
  /\ newsTtsResult = NoTts /\ newsTtsGenerating
C12_NewsLoopProgress ==
  (entersLeft = MaxEnters /\ NewsWaiting) => \E i \in Threads : Alive(i)

(* C13: with 0 headlines the NEWS state returns to IDLE on its first tick  *)
(* without spawning any news TTS or playback task: the tick of an empty    *)
(* list writes IDLE and starts no thread, and the two places where         *)
(* _handle_news starts a news task are only reached with headlines.        *)
C13_EmptyNewsToIdle ==
  [][/\ (TickNews /\ newsData = 0) =>
          (state' = "IDLE" /\ thr' = thr /\ tpc' \notin {"news_tts", "news_play"})
     /\ (TickNewsEmpty2 /\ state = "IDLE") => (state' = "IDLE" /\ thr' = thr)
     /\ (TickNewsTtsSpawn \/ TickNewsPlaySpawn) => newsData > 0]_vars
C13_EmptyNewsEnded ==
  /\ tpc = "news_empty" /\ state = "IDLE" /\ newsData = 0
  /\ AliveOf("ntts") \cup AliveOf("nplay") = {}

(* C15: a music transcript is classified as a predefined intent naming the *)
(* music action, the registry resolves it, and the cycle goes on to ACTING *)
(* (and from there to MUSIC): the thinking task that reads a music         *)
(* transcript stores the intent "music", a name the registry holds, and    *)
(* sets ACTING.                                                            *)
C15_MusicFromSpeech ==
  [][\A i \in Threads :
       (ThinkStart(i) /\ asrResult = "music") =>
         (intent' = "music" /\ intent' \in Registry /\ state' = "ACTING")]_vars

(* C17: the microphone and the speaker are exclusive: at no time are two   *)
(* tasks reading the capture queue (in the wake loop or the streaming      *)
(* loop of record_and_transcribe), and at no time are two tasks between    *)
(* their sd.play and the return of their sd.wait.                          *)
MicReaders ==
  {i \in Threads : thr[i].kind = "wake" /\ thr[i].pc \in {"rt_wake", "rt_stream"}}
SpeakerHolders ==
  {i \in Threads : thr[i].pc = "pl_wait"}
C17_DevicesExclusive ==
  Cardinality(MicReaders) <= 1 /\ Cardinality(SpeakerHolders) <= 1

(* C18: at most one music playback thread plays: a thread that was not     *)
(* joined within the timeout never starts its audio after a newer playback *)
(* was started, never are two threads in the playback loop, and a thread   *)
(* that ends clears the is_playing flag only if it is the newest one.      *)
MusicPlaying == {i \in MusicThreads : mthr[i].pc = "poll"}
C18_OneMusicPlayback ==
  [][/\ Cardinality(MusicPlaying) <= 1
     /\ \A i \in MusicThreads :
          /\ (MusicSdPlay(i) /\ sdOut' = i) => i = playbackThread
          /\ ((MusicFinally(i) \/ TrackUrl(i)) /\ musicIsPlaying /\ ~musicIsPlaying')
                => i = playbackThread]_vars

(* C19: MusicAction.stop() is effective and idempotent: once stop() has    *)
(* returned is_playing() is false until the next execute, a playback loop  *)
(* that polls a cleared flag leaves the loop, and a stop() that finds      *)
(* nothing playing returns without changing the player.                    *)
C19_StopIdempotent ==
  [][/\ (cOp' = "stop" /\ cpc' = "idle") => ~musicIsPlaying'
     /\ \A i \in MusicThreads :
          (MusicPoll(i) /\ ~musicIsPlaying) => mthr'[i].pc = "sdstop"
     /\ (MusicStop /\ ~musicIsPlaying) =>
          (/\ ret' = "noop" /\ cpc' = "idle"
           /\ UNCHANGED <<musicIsPlaying, playbackThread, mthr, sdOut>>)]_vars
C19_StoppedTwice ==
  /\ cOp = "stop" /\ ret = "noop" /\ cpc = "idle"
  /\ MusicAlive(playbackThread) /\ ~musicIsPlaying

(* C20: execute with an empty query returns a failure and leaves the       *)
(* player as it was: no thread is started and a playback in progress is    *)
(* not stopped.                                                            *)
C20_EmptyQueryRejected ==
  [][MusicExecute("empty") =>
       (/\ ret' = "fail" /\ cpc' = "idle"
        /\ UNCHANGED <<musicIsPlaying, playbackThread, mthr, sdOut>>)]_vars
C20_RejectedWhilePlaying ==
  /\ cOp = "empty" /\ ret = "fail" /\ cpc = "idle"
  /\ musicIsPlaying /\ MusicAlive(playbackThread) /\ sdOut = playbackThread

(* The wake-and-transcribe task is inside a recognizer cycle: between the  *)
(* reset of the per-cycle fields and the return of the result              *)
InCycle == \E i \in Threads : thr[i].kind = "wake" /\ thr[i].pc \in {"rt_stream", "rt_ret"}

(* C21: a recognizer cycle produces at most one final result, the first    *)
(* final transcript of its stream: while the cycle lasts, no response      *)
(* (of this stream or of an earlier cycle's stream) replaces a final       *)
(* result that is already stored.                                          *)
C21_FirstFinalKept ==
  [][\A r \in Recs : (RecFinal(r) /\ InCycle /\ finalResult # "none")
                        => finalResult' = finalResult]_vars

(* A transcript with text has arrived: interim or final *)
HeardSpeech == recogStarted \/ finalResult # "none"

(* The wake loop is reading again and the assistant is idle *)
Rearmed == state = "IDLE" /\ isRecording /\ \E i \in Threads : At(i, "wake", "rt_wake")

RecorderStopped ==
  rpc \in {"cs_lock", "cs_poll", "cs_ui", "ws_track", "ws_answer", "in_call"}

(* The request generator of a live response thread goes on polling: its    *)
(* loop test `while self._streaming_active` holds                          *)
GeneratorPolling == streamingActive /\ \E r \in Recs : RecAlive(r)

(* C23: after StreamingRecorder.stop() during a cycle every activity of    *)
(* the cycle ends: when record_and_transcribe returns, the request         *)
(* generator and the response thread have stopped or have been told to     *)
(* stop, instead of polling on.                                            *)
C23_StopEndsCycle ==
  [][\A i \in Threads : (StreamReturn(i) /\ RecorderStopped) => ~GeneratorPolling']_vars

(* C24: the frame queue is bounded: the callback of a full queue drops the *)
(* oldest frame, so the queue never holds all of MaxFrames frames          *)
(* delivered in a row.                                                     *)
C24_QueueBounded == Len(audioQueue) < MaxFrames

(* C25: the wake detector never takes a frame that was captured while the  *)
(* state was THINKING, ACTING, CHATTING, SPEAKING or NEWS: such frames are *)
(* discarded before the wake loop reads.                                   *)
C25_WakeFramesFresh ==
  [][\A i \in Threads : WakeGet(i) => ~Head(audioQueue)]_vars

(* The wake word of a cycle has been detected and the cycle's fields are   *)
(* not yet reset: the tick thread can already be in the LISTENING handler  *)
WakeJustDetected == \E i \in Threads : At(i, "wake", "rt_init")

(* C26: between the end of a cycle and the beginning of the next the       *)
(* per-cycle recognition state is cleared: when the next wake word has     *)
(* been detected the recorder holds no final or partial transcript of the  *)
(* previous cycle, so none can be observed by the LISTENING handler.       *)
C26_CycleStateCleared == WakeJustDetected => (finalResult = "none" /\ ~recogStarted)

(* C27: when no pattern matches and the chat client fails (a status other  *)
(* than 200 and an unparsable body included), the thinking task stores a   *)
(* chat intent with the reply "Sorry, I don't understand your meaning."    *)
(* and the state becomes CHATTING.                                         *)
C27_FallbackReply ==
  [][\A i \in Threads : (ThinkLlm(i) /\ llm # "ok")
                          => (intent' = SorryReply /\ state' = "CHATTING")]_vars

(* C28: recognize returns the intent "news" for every text of the test's   *)
(* positive list, and no news intent for every text of its negative list   *)
(* ("nothing related to news" and "I don't want news" included) and for    *)
(* the chat texts "what is AI" and "hello there".                          *)
C28_NewsTextsOnly ==
  nluResult # "pending" =>
    /\ nluText \in PositiveTexts => nluResult = "news"
    /\ nluText \in NegativeTexts \cup ChatTexts => nluResult # "news"

CallBlocked == rpc \in {"cs_lock", "cs_ui"} /\ lock = "tick" /\ tpc = "spk_relock"

(* C30: every call that started ends in IDLE: its handler goes on to stop  *)
(* the track, close the peer connection, re-initialize the capture stream  *)
(* and set IDLE, so the state never stays CALLING; in particular a started *)
(* call is never blocked for good before these steps.                      *)
C30_CallEndsIdle == ~CallBlocked

(* C31: a Q or Esc key press shuts down as a window-close does: when run   *)
(* has returned, cleanup has been performed, so the capture stream is      *)
(* closed.                                                                 *)
C31_QuitKeyCleansUp == tpc = "returned" => ~streamActive

(* C32: a failure inside a pipeline stage forces the state to IDLE: a pass *)
(* of the chatting handler whose reply synthesis failed (so that the state *)
(* did not become SPEAKING) ends with the state IDLE, and does not leave   *)
(* the state CHATTING to be executed again.                                *)
C32_FailureToIdle == [][(TickChattingDone /\ state' # "SPEAKING") => state' = "IDLE"]_vars

(* C33: a news playback task that starts in state NEWS and finds no TTS    *)
(* ready advances the news index by one before it ends (the start is the   *)
(* only step of such a task besides its exit), so that the loop continues  *)
(* with the next headline.                                                 *)
C33_SkipAdvancesIndex ==
  [][\A i \in Threads :
       (NewsPlayStart(i) /\ newsTtsResult = NoTts /\ state = "NEWS") =>
         newsIndex' = newsIndex + 1]_vars

(* C34: the per-state handlers are non-blocking: the tick thread is never  *)
(* inside action.execute (the news request) or tts_client.synthesize, the  *)
(* calls at which _handle_acting and _handle_chatting stand between their  *)
(* two steps; such work is done by background tasks only.                  *)
C34_TickNeverBlocks == tpc \notin {"act2", "chat2"}

(* C35: the state THINKING is entered only from LISTENING: no step takes   *)
(* the state from IDLE (or any state other than LISTENING) to THINKING.    *)
C35_ThinkingFromListening ==
  [][(state # "THINKING" /\ state' = "THINKING") => state = "LISTENING"]_vars

(* C36: whenever the playback thread of a remote track has exited, however *)
(* it ended, the temporary file it created no longer exists.               *)
C36_NoTempFileLeft == \A i \in MusicThreads : mthr[i].pc = "dead" => mthr[i].tmp = "none"

(* C37: in state NEWS the TTS-in-progress flag is true only while a news   *)
(* TTS task is running or the tick thread is about to start one in the     *)
(* same pass of _handle_news; it is not left true when the task was not    *)
(* started because the slot's task was alive.                              *)
C37_TtsFlagHasTask ==
  (state = "NEWS" /\ newsTtsGenerating) =>
    \/ tpc = "news_tts"
    \/ \E i \in Threads : thr[i].kind = "ntts" /\ thr[i].pc \in {"n_start", "n_synth", "n_copy"}

(* C38: the state leaves SPEAKING only after the playback of the reply has *)
(* started and finished: the tick thread never ends SPEAKING, on the sink  *)
(* reporting that it is not playing, while the playback task it started    *)
(* has not yet entered player.play.                                        *)
C38_SpeakingOutlastsPlayback ==
  [][(TickSpeaking /\ state' # "SPEAKING") =>
       ~\E i \in Threads : At(i, "play", "p_start")]_vars

(* C39: whenever the state is IDLE (and the tick thread is between two     *)
(* handler passes, and no call is being set up or ended) no news-session   *)
(* data is pending: the news-action flag is false and the stored headlines *)
(* are cleared, also after a call during a news interaction.               *)
C39_IdleHasNoNews ==
  (state = "IDLE" /\ tpc = "loop" /\ rpc = "r_idle") => (~isNewsAction /\ newsData = -1)

(* C40: no recognition thread outlives its cycle: every live recognition   *)
(* thread belongs to a call of record_and_transcribe that has not yet      *)
(* returned, so there are never more live recognition threads than wake    *)
(* tasks inside the streaming part of that call.                           *)
C40_NoThreadOutlivesCycle ==
  Cardinality({r \in Recs : RecAlive(r)}) <=
    Cardinality({i \in Threads : thr[i].kind = "wake" /\ thr[i].pc \in {"rt_stream", "rt_ret"}})

====
